---- MODULE Spec2Model ----
(***************************************************************************)
(* Model of searx/engines/nishithdesai.py: the request builder (request)   *)
(* and the HTML result parser (response) of the Nishith Desai Associates   *)
(* engine.  Documents are small DOM trees, strings are TLA+ strings that   *)
(* the operators below take apart character by character.                  *)
(***************************************************************************)
EXTENDS Integers, Sequences, FiniteSets, TLC

(***************************************************************************)
(* Python string primitives                                                *)
(***************************************************************************)

\* str[a:b] with 0 <= a, Python slice semantics (clamped at the end)
Slice(s, a, b) ==
    LET hi == IF b > Len(s) THEN Len(s) ELSE b
    IN  IF a >= hi THEN "" ELSE SubSeq(s, a + 1, hi)

CharAt(s, k) == SubSeq(s, k, k)

\* str.startswith(p)
StartsWith(s, p) == Len(s) >= Len(p) /\ SubSeq(s, 1, Len(p)) = p

EndsWith(s, p) == Len(s) >= Len(p) /\ SubSeq(s, Len(s) - Len(p) + 1, Len(s)) = p

\* p in s
Contains(s, p) == \E k \in 1..(Len(s) - Len(p) + 1) : SubSeq(s, k, k + Len(p) - 1) = p

\* the characters Python's str.strip() and the regex class \s remove
IsSpace(c) == c \in {" ", "\n", "\t"}

LowerChar(c) ==
    CASE c = "A" -> "a" [] c = "B" -> "b" [] c = "C" -> "c" [] c = "D" -> "d"
      [] c = "E" -> "e" [] c = "F" -> "f" [] c = "G" -> "g" [] c = "H" -> "h"
      [] c = "I" -> "i" [] c = "J" -> "j" [] c = "K" -> "k" [] c = "L" -> "l"
      [] c = "M" -> "m" [] c = "N" -> "n" [] c = "O" -> "o" [] c = "P" -> "p"
      [] c = "Q" -> "q" [] c = "R" -> "r" [] c = "S" -> "s" [] c = "T" -> "t"
      [] c = "U" -> "u" [] c = "V" -> "v" [] c = "W" -> "w" [] c = "X" -> "x"
      [] c = "Y" -> "y" [] c = "Z" -> "z" [] OTHER -> c

\* lower-cases s[lo..hi]; halving keeps the evaluation depth logarithmic
RECURSIVE LowerRange(_, _, _)
LowerRange(s, lo, hi) ==
    IF lo > hi THEN ""
    ELSE IF lo = hi THEN LowerChar(CharAt(s, lo))
    ELSE LET mid == (lo + hi) \div 2
         IN  LowerRange(s, lo, mid) \o LowerRange(s, mid + 1, hi)

\* str.lower()
Lower(s) == LowerRange(s, 1, Len(s))

RECURSIVE FirstNonSpace(_, _)
FirstNonSpace(s, k) ==
    IF k > Len(s) THEN Len(s) + 1
    ELSE IF IsSpace(CharAt(s, k)) THEN FirstNonSpace(s, k + 1) ELSE k

RECURSIVE LastNonSpace(_, _)
LastNonSpace(s, k) ==
    IF k < 1 THEN 0
    ELSE IF IsSpace(CharAt(s, k)) THEN LastNonSpace(s, k - 1) ELSE k

\* str.strip()
Strip(s) ==
    LET a == FirstNonSpace(s, 1)
        b == LastNonSpace(s, Len(s))
    IN  IF a > b THEN "" ELSE SubSeq(s, a, b)

\* what the substitution leaves of character k: a run of white space becomes
\* one blank, written at the first character of the run
CollapseChar(s, k) ==
    IF IsSpace(CharAt(s, k))
    THEN (IF k > 1 /\ IsSpace(CharAt(s, k - 1)) THEN "" ELSE " ")
    ELSE CharAt(s, k)

RECURSIVE CollapseRange(_, _, _)
CollapseRange(s, lo, hi) ==
    IF lo > hi THEN ""
    ELSE IF lo = hi THEN CollapseChar(s, lo)
    ELSE LET mid == (lo + hi) \div 2
         IN  CollapseRange(s, lo, mid) \o CollapseRange(s, mid + 1, hi)

\* re.sub(r'\s+', ' ', s)
CollapseSpace(s) == CollapseRange(s, 1, Len(s))

RECURSIVE JoinFrom(_, _, _)
JoinFrom(sep, parts, k) ==
    IF k > Len(parts) THEN ""
    ELSE IF k = Len(parts) THEN parts[k]
    ELSE parts[k] \o sep \o JoinFrom(sep, parts, k + 1)

\* sep.join(parts)
Join(sep, parts) == JoinFrom(sep, parts, 1)

RECURSIVE Repeat(_, _)
Repeat(s, n) ==
    IF n <= 0 THEN ""
    ELSE IF n = 1 THEN s
    ELSE LET h == Repeat(s, n \div 2)
         IN  IF n % 2 = 0 THEN h \o h ELSE h \o h \o s

RECURSIVE Flatten(_)
Flatten(ss) == IF ss = <<>> THEN <<>> ELSE Head(ss) \o Flatten(Tail(ss))

(***************************************************************************)
(* Documents: a DOM node is an element (tag, class attribute, href         *)
(* attribute, children) or a text node (tag "#text").                      *)
(***************************************************************************)

Txt(s) == [tag |-> "#text", class |-> "", hasHref |-> FALSE, href |-> "",
           text |-> s, kids |-> <<>>]

El(tag, class, kids) == [tag |-> tag, class |-> class, hasHref |-> FALSE, href |-> "",
                         text |-> "", kids |-> kids]

Anchor(href, kids) == [tag |-> "a", class |-> "", hasHref |-> TRUE, href |-> href,
                       text |-> "", kids |-> kids]

IsText(n) == n.tag = "#text"

\* the proper descendants of n from child k on, in document order
RECURSIVE DescFrom(_, _)
DescFrom(n, k) ==
    IF k > Len(n.kids) THEN <<>>
    ELSE <<n.kids[k]>> \o DescFrom(n.kids[k], 1) \o DescFrom(n, k + 1)

Descendants(n) == DescFrom(n, 1)

DescOrSelf(n) == <<n>> \o Descendants(n)

\* a location step  tag[predicate on @class]
Step(tag, mode, cls) == [tag |-> tag, mode |-> mode, cls |-> cls]

StepMatches(st, n) ==
    /\ n.tag = st.tag
    /\ CASE st.mode = "any"      -> TRUE
         [] st.mode = "contains" -> Contains(n.class, st.cls)
         [] st.mode = "equals"   -> n.class = st.cls

\* the string values of the text-node children of e
ChildTexts(e) ==
    LET ts == SelectSeq(e.kids, IsText)
    IN  [k \in 1..Len(ts) |-> ts[k].text]

\* ctx.xpath('.//step/text()')
XPathText(ctx, st) ==
    LET es == SelectSeq(Descendants(ctx), LAMBDA n : StepMatches(st, n))
    IN  Flatten([k \in 1..Len(es) |-> ChildTexts(es[k])])

\* ctx.xpath('.//text()')
XPathAllText(ctx) ==
    LET ts == SelectSeq(Descendants(ctx), IsText)
    IN  [k \in 1..Len(ts) |-> ts[k].text]

\* ctx.xpath('.//a/@href')
XPathAnchorHref(ctx) ==
    LET es == SelectSeq(Descendants(ctx), LAMBDA n : n.tag = "a" /\ n.hasHref)
    IN  [k \in 1..Len(es) |-> es[k].href]

\* ctx.xpath('.//@href')
XPathAnyHref(ctx) ==
    LET es == SelectSeq(DescOrSelf(ctx), LAMBDA n : n.hasHref)
    IN  [k \in 1..Len(es) |-> es[k].href]

\* eval_xpath(dom, '//step')
XPathElems(dom, st) == SelectSeq(DescOrSelf(dom), LAMBDA n : StepMatches(st, n))

\* eval_xpath(dom, '//a[contains(@href, "/")]')
LinkCandidates(dom) ==
    SelectSeq(DescOrSelf(dom), LAMBDA n : n.tag = "a" /\ n.hasHref /\ Contains(n.href, "/"))

\* eval_xpath(dom, '//a[@href]')
AllLinks(dom) == SelectSeq(DescOrSelf(dom), LAMBDA n : n.tag = "a" /\ n.hasHref)

\* searx.utils.extract_text(element): the text content of the subtree, white
\* space normalised
ExtractText(n) == Strip(CollapseSpace(Join("", XPathAllText(n))))

(***************************************************************************)
(* response: module constants and the per-candidate extraction             *)
(***************************************************************************)

base_url == "https://www.nishithdesai.com"

search_url == base_url \o "/Search.html"

result_selectors ==
    << Step("div", "contains", "search-result"),
       Step("div", "contains", "result"),
       Step("div", "contains", "article"),
       Step("div", "contains", "hotline"),
       Step("div", "contains", "news"),
       Step("div", "contains", "content-item"),
       Step("article", "any", ""),
       Step("div", "contains", "list-item") >>

title_selectors ==
    << Step("h1", "any", ""), Step("h2", "any", ""), Step("h3", "any", ""),
       Step("h4", "any", ""), Step("a", "any", ""), Step("strong", "any", ""),
       Step("span", "equals", "title"), Step("div", "equals", "title") >>

content_steps ==
    << Step("p", "any", ""), Step("div", "equals", "content"),
       Step("div", "equals", "description"), Step("div", "equals", "excerpt"),
       Step("span", "equals", "snippet") >>

MinTitleLen == 5
MaxContentLen == 300
ContentKeep == 297
MinLinkTextLen == 10
FallbackCap == 10
FallbackContent == "Content from Nishith Desai Associates"

\* the selector cascade without its "break": the last selector decides
SelectContainersNoBreak(dom, k) ==
    XPathElems(dom, result_selectors[Len(result_selectors)])

\* the loop over result_selectors: the matches of the first selector, from
\* index k on, that matches anything; [] when none does
RECURSIVE SelectContainers(_, _)
SelectContainers(dom, k) ==
    IF k > Len(result_selectors) THEN <<>>
    ELSE LET found == XPathElems(dom, result_selectors[k])
         IN  IF found # <<>> THEN found ELSE SelectContainers(dom, k + 1)

\* the candidates of the primary path: the containers, else the links
Candidates(dom) ==
    LET found == SelectContainers(dom, 1)
    IN  IF found # <<>> THEN found ELSE LinkCandidates(dom)

\* Python's None, and a value that is not None: an optional string is a
\* sequence of at most one string
None == <<>>

Some(v) == <<v>>

\* the loop over title_selectors: the first text of the first selector that
\* yields any text node, stripped; None when no selector yields one
RECURSIVE ExtractTitle(_, _)
ExtractTitle(result, k) ==
    IF k > Len(title_selectors) THEN None
    ELSE LET title_elements == XPathText(result, title_selectors[k])
         IN  IF title_elements # <<>> THEN Some(Strip(title_elements[1]))
             ELSE ExtractTitle(result, k + 1)

\* "not title or len(title) < 5"
TitleRejected(title) == title = None \/ title[1] = "" \/ Len(title[1]) < MinTitleLen

\* the loop over url_selectors
ExtractUrl(result) ==
    LET a == XPathAnchorHref(result)
        b == XPathAnyHref(result)
    IN  IF a # <<>> THEN Some(a[1]) ELSE IF b # <<>> THEN Some(b[1]) ELSE None

UrlRejected(url) == url = None \/ url[1] = ""

\* "Normalize URL"
NormalizeUrl(url) ==
    IF StartsWith(url, "/") THEN base_url \o url
    ELSE IF ~StartsWith(url, "http") THEN base_url \o "/" \o url
    ELSE url

\* ' '.join([text.strip() for text in content_elements[:3] if text.strip()])
JoinFirstThree(content_elements) ==
    LET firstThree == SubSeq(content_elements, 1,
                             IF Len(content_elements) < 3 THEN Len(content_elements) ELSE 3)
        stripped   == [k \in 1..Len(firstThree) |-> Strip(firstThree[k])]
    IN  Join(" ", SelectSeq(stripped, LAMBDA t : t # ""))

\* the loop over content_selectors, './/text()' being the last of them
RECURSIVE ExtractContent(_, _)
ExtractContent(result, k) ==
    IF k > Len(content_steps)
    THEN (IF XPathAllText(result) # <<>> THEN JoinFirstThree(XPathAllText(result)) ELSE "")
    ELSE LET content_elements == XPathText(result, content_steps[k])
         IN  IF content_elements # <<>> THEN JoinFirstThree(content_elements)
             ELSE ExtractContent(result, k + 1)

\* "Clean up content", before the cut
CleanContent(content) == Strip(CollapseSpace(content))

\* the cut that keeps 300 characters before the ellipsis
TruncateLate(content) ==
    IF Len(content) > MaxContentLen THEN Slice(content, 0, MaxContentLen) \o "..."
    ELSE content

\* the cut to 300 characters
Truncate(content) ==
    IF Len(content) > MaxContentLen THEN Slice(content, 0, ContentKeep) \o "..."
    ELSE content

\* the classification that looks for ".pdf" in the URL as written
ContentTypeCaseSensitive(url) ==
    LET url_lower == Lower(url)
    IN  IF Contains(url_lower, "hotline") THEN "Legal Hotline"
        ELSE IF Contains(url_lower, "research") \/ Contains(url_lower, "article")
             THEN "Research Article"
        ELSE IF Contains(url_lower, "news") THEN "News"
        ELSE IF Contains(url, ".pdf") THEN "PDF Document"
        ELSE "Legal Content"

\* "Determine content type and category"
ContentType(url) ==
    LET url_lower == Lower(url)
    IN  IF Contains(url_lower, "hotline") THEN "Legal Hotline"
        ELSE IF Contains(url_lower, "research") \/ Contains(url_lower, "article")
             THEN "Research Article"
        ELSE IF Contains(url_lower, "news") THEN "News"
        ELSE IF Contains(url_lower, ".pdf") THEN "PDF Document"
        ELSE "Legal Content"

\* res.types.File(url, title, content, template='files.html')
FileResult(url, title, content) ==
    [kind |-> "File", url |-> url, title |-> title, content |-> content,
     template |-> "files.html"]

\* res.types.Link(url, title, content)
LinkResult(url, title, content) ==
    [kind |-> "Link", url |-> url, title |-> title, content |-> content,
     template |-> ""]

\* the record one candidate yields when nothing raises: [skip |-> reason] or
\* [skip |-> "", rec |-> the record added]
ProcessResult(result) ==
    LET t == ExtractTitle(result, 1)
        u == ExtractUrl(result)
    IN  IF TitleRejected(t) THEN [skip |-> "title"]
        ELSE IF UrlRejected(u) THEN [skip |-> "url"]
        ELSE LET title   == t[1]
                 url     == NormalizeUrl(u[1])
                 content == Truncate(CleanContent(ExtractContent(result, 1)))
                 ctype   == ContentType(url)
             IN  IF ctype = "PDF Document"
                 THEN [skip |-> "", rec |-> FileResult(url, title, content)]
                 ELSE [skip |-> "",
                       rec |-> LinkResult(url, "[" \o ctype \o "] " \o title, content)]

\* the test a link passes in the last-resort scan
LinkAccepted(href, link_text) ==
    /\ href # ""
    /\ link_text # ""
    /\ Len(Strip(link_text)) > MinLinkTextLen
    /\ ~StartsWith(href, "#")
    /\ ~StartsWith(href, "javascript:")
    /\ ~StartsWith(href, "mailto:")

\* the record one link yields in the last-resort scan when nothing raises
ProcessLink(link) ==
    LET href      == link.href
        link_text == ExtractText(link)
    IN  IF LinkAccepted(href, link_text)
        THEN [skip |-> "",
              rec |-> LinkResult(NormalizeUrl(href), Strip(link_text), FallbackContent)]
        ELSE [skip |-> "filter"]

(***************************************************************************)
(* Input documents                                                         *)
(***************************************************************************)

\* how many copies of one element a document repeats, at most
MaxFill == 11

\* how far around the 300-character limit the snippet lengths range
LenSlack == 2

\* how many exceptions one call of response meets, at most
MaxRaises == 1

\* a paragraph whose cleaned text has n characters (one less when n is a
\* multiple of 11), written with white-space runs the clean-up collapses
LongText(n) ==
    "  " \o Repeat("abcdefghij \n", n \div 11) \o Slice("abcdefghij ", 0, n % 11) \o "\t"

Card(class, htag, title, href, atext, para) ==
    El("div", class, << El(htag, "", <<Txt(title)>>),
                        El("p", "", <<Txt(para)>>),
                        Anchor(href, IF atext = "" THEN <<>> ELSE <<Txt(atext)>>) >>)

CardMenu ==
    { Card("search-result", "h2", "Tax Hotline Update", "/hotline/123.html",
           "Read more about it", "Summary text."),
      Card("result item", "h3", " Research Paper ", "research/paper.PDF",
           "Download", "A  study\n of funds."),
      Card("news-box", "strong", "Budget News 2024", "http-guide.html", "", "Guide."),
      Card("result", "h2", "Firm Overview", "/firm/overview.html", "",
           FallbackContent),
      Card("hotline", "h4", "Annual Report", "/files/Report.PDF", "PDF", ""),
      Card("content-item", "h1", "Tiny", "/tiny.html", "Go", "x"),
      El("article", "", << El("h1", "", <<Txt(" \n")>>),
                           El("h2", "", <<Txt("Real Title Here")>>),
                           Anchor("https://example.com/doc.pdf", <<Txt("Open the document")>>) >>),
      El("div", "content-item", << El("h2", "", <<Txt("No Link Here Title")>>),
                                   Txt(" loose text ") >>),
      El("div", "article", << El("span", "title", <<Txt("Span Title Text")>>),
                              El("div", "excerpt", <<Txt("An excerpt.")>>),
                              El("span", "", << Anchor("", <<>>) >>),
                              Anchor("/second.html", <<Txt("Second anchor of card")>>) >>) }

LongMenu ==
    { Card("list-item", "h3", "Long Story Title", "/long/story.html", "", LongText(n)) :
        n \in (MaxContentLen - LenSlack)..(MaxContentLen + LenSlack) }

LinkMenu ==
    { Anchor("/about/team.html", << El("h4", "", <<Txt("About the Team")>>) >>),
      Anchor("page.html", <<Txt(" Plain relative  link text ")>>),
      Anchor("#top", <<Txt("Back to the top of page")>>),
      Anchor("javascript:void(0)", <<Txt("Open the search menu")>>),
      Anchor("mailto:info@nishithdesai.com", <<Txt("Write to our office")>>),
      Anchor("httpd-notes.html", <<Txt("Server notes archive")>>),
      Anchor("/short.html", <<Txt("Short")>>),
      El("a", "", <<Txt("An anchor without a target")>>),
      El("p", "", <<Txt("A paragraph, "), Anchor("docs/News.pdf", <<Txt("Newsletter as a file")>>)>>) }

Menu == CardMenu \cup LongMenu \cup LinkMenu

\* the elements a document repeats
FillMenu ==
    { Card("search-result", "h2", "Tax Hotline Update", "/hotline/123.html",
           "Read more about it", "Summary text."),
      Anchor("/about/team.html", << El("h4", "", <<Txt("About the Team")>>) >>),
      Anchor("page.html", <<Txt(" Plain relative  link text ")>>) }

\* the last element of a document
TailMenu ==
    { Card("search-result", "h2", "Tax Hotline Update", "/hotline/123.html",
           "Read more about it", "Summary text."),
      Card("news-box", "strong", "Budget News 2024", "http-guide.html", "", "Guide."),
      Card("hotline", "h4", "Annual Report", "/files/Report.PDF", "PDF", ""),
      Anchor("/about/team.html", << El("h4", "", <<Txt("About the Team")>>) >>),
      Anchor("#top", <<Txt("Back to the top of page")>>),
      Anchor("httpd-notes.html", <<Txt("Server notes archive")>>) }

\* the elements before and after a long run of one element
LongHeadMenu ==
    { Card("news-box", "strong", "Budget News 2024", "http-guide.html", "", "Guide."),
      Anchor("#top", <<Txt("Back to the top of page")>>),
      Anchor("javascript:void(0)", <<Txt("Open the search menu")>>) }

LongTailMenu ==
    { Anchor("httpd-notes.html", <<Txt("Server notes archive")>>) }

Opt(S) == {<<>>} \cup { <<e>> : e \in S }

Body(kids) == El("body", "", kids)

\* <body> head, one filler, tail </body>, each of them optional
ShortDocuments ==
    { Body(h \o f \o t) : h \in Opt(Menu), f \in Opt(FillMenu), t \in Opt(TailMenu) }

\* <body> head, a run of one filler, tail </body>
LongDocuments ==
    { Body(h \o [k \in 1..n |-> e] \o t) :
        h \in Opt(LongHeadMenu), e \in FillMenu, n \in {MaxFill - 1, MaxFill},
        t \in Opt(LongTailMenu) }

\* the documents response is run on
Documents == ShortDocuments \cup LongDocuments

\* a response body lxml finds no element in: html.fromstring raises ParserError
EmptyDocument == Txt("")

\* html.fromstring(resp.text) raises
ParseRaises(text) == IsText(text)

(***************************************************************************)
(* State                                                                   *)
(***************************************************************************)

VARIABLES
    text,       \* response: resp.text, as the tree it parses to
    pc,         \* response: "parse", "primary", "fallback", "done"
    results,    \* response: the candidates of the primary path
    idx,        \* response: the position of "for result in results"
    all_links,  \* response: the links of the last-resort scan
    lidx,       \* response: the position of "for link in all_links"
    res,        \* response: the EngineResults being built
    origin,     \* history: for each record of res, the loop and position it came from
    outcome,    \* history: what became of each candidate the primary loop has left
    raised,     \* history: the exceptions met so far
    headers,    \* the module-level headers dict and the dicts of the callers
    params,     \* request: the params map of each call
    seen        \* history: for each call, the headers its caller last saw or wrote

respVars == <<text, pc, results, idx, all_links, lidx, res, origin, outcome, raised>>

reqVars == <<headers, params, seen>>

vars == <<text, pc, results, idx, all_links, lidx, res, origin, outcome, raised,
          headers, params, seen>>

(***************************************************************************)
(* response                                                                *)
(***************************************************************************)

\* EngineResults.add(result): the result set is the ordered sequence of the
\* records added
ResultsAdd(r, rec) == Append(r, rec)

\* len(res.results): the number of records added so far
ResultsLen(r) == Len(r)

\* a primary loop without a handler of its own: the outer handler ends the call
AfterCandidateErrorAbort(i) == [pc |-> "done", idx |-> i]

\* where "except Exception: continue" of the primary loop resumes
AfterCandidateError(i) == [pc |-> "primary", idx |-> i + 1]

\* where "except Exception: continue" of the last-resort loop resumes
AfterLinkError(j) == [pc |-> "fallback", lidx |-> j + 1]

\* the cap tested one record late
FallbackFullLate(r) == ResultsLen(r) > FallbackCap

\* "if len(res.results) >= 10: break"
FallbackFull(r) == ResultsLen(r) >= FallbackCap

\* the last-resort scan entered whenever the cap is not reached
EnterFallbackBelowCap(r) == ResultsLen(r) < FallbackCap

\* "if len(res.results) == 0"
EnterFallback(r) == ResultsLen(r) = 0

\* res = EngineResults(); dom = html.fromstring(resp.text); the selector
\* cascade.  A parse that raises leaves through the outer except clause.
Parse ==
    /\ pc = "parse"
    /\ IF ParseRaises(text)
       THEN /\ pc' = "done"
            /\ raised' = raised + 1
            /\ UNCHANGED <<results, idx>>
       ELSE /\ pc' = "primary"
            /\ results' = Candidates(text)
            /\ idx' = 1
            /\ UNCHANGED raised
    /\ UNCHANGED <<text, all_links, lidx, res, origin, outcome>>
    /\ UNCHANGED reqVars

\* one pass of "for result in results" in which nothing raises
ProcessCandidate ==
    /\ pc = "primary"
    /\ idx <= Len(results)
    /\ LET r == ProcessResult(results[idx])
       IN  IF r.skip = ""
           THEN /\ res' = ResultsAdd(res, r.rec)
                /\ origin' = Append(origin, [path |-> "primary", at |-> idx])
                /\ outcome' = Append(outcome, "added")
           ELSE /\ outcome' = Append(outcome, r.skip)
                /\ UNCHANGED <<res, origin>>
    /\ idx' = idx + 1
    /\ UNCHANGED <<text, pc, results, all_links, lidx, raised>>
    /\ UNCHANGED reqVars

\* one pass of "for result in results" in which a statement raises
CandidateRaises ==
    /\ pc = "primary"
    /\ idx <= Len(results)
    /\ raised < MaxRaises
    /\ raised' = raised + 1
    /\ outcome' = Append(outcome, "raised")
    /\ pc' = AfterCandidateError(idx).pc
    /\ idx' = AfterCandidateError(idx).idx
    /\ UNCHANGED <<text, results, all_links, lidx, res, origin>>
    /\ UNCHANGED reqVars

\* the primary loop is over: return, or start the last-resort scan
EndPrimary ==
    /\ pc = "primary"
    /\ idx > Len(results)
    /\ IF EnterFallback(res)
       THEN /\ pc' = "fallback"
            /\ all_links' = AllLinks(text)
            /\ lidx' = 1
       ELSE /\ pc' = "done"
            /\ UNCHANGED <<all_links, lidx>>
    /\ UNCHANGED <<text, results, idx, res, origin, outcome, raised>>
    /\ UNCHANGED reqVars

\* one pass of "for link in all_links" in which nothing raises
ProcessLinkStep ==
    /\ pc = "fallback"
    /\ lidx <= Len(all_links)
    /\ LET r == ProcessLink(all_links[lidx])
       IN  IF r.skip = ""
           THEN /\ res' = ResultsAdd(res, r.rec)
                /\ origin' = Append(origin, [path |-> "fallback", at |-> lidx])
                /\ pc' = IF FallbackFull(res') THEN "done" ELSE "fallback"
           ELSE UNCHANGED <<res, origin, pc>>
    /\ lidx' = lidx + 1
    /\ UNCHANGED <<text, results, idx, all_links, outcome, raised>>
    /\ UNCHANGED reqVars

\* one pass of "for link in all_links" in which a statement raises
LinkRaises ==
    /\ pc = "fallback"
    /\ lidx <= Len(all_links)
    /\ raised < MaxRaises
    /\ raised' = raised + 1
    /\ pc' = AfterLinkError(lidx).pc
    /\ lidx' = AfterLinkError(lidx).lidx
    /\ UNCHANGED <<text, results, idx, all_links, res, origin, outcome>>
    /\ UNCHANGED reqVars

\* the last-resort loop is over
EndFallback ==
    /\ pc = "fallback"
    /\ lidx > Len(all_links)
    /\ pc' = "done"
    /\ UNCHANGED <<text, results, idx, all_links, lidx, res, origin, outcome, raised>>
    /\ UNCHANGED reqVars

(***************************************************************************)
(* request                                                                 *)
(***************************************************************************)

\* how many calls of request are modelled, each on a params map of its own
NumCalls == 2

\* the largest pageno the host passes
MaxPageNo == 3

Calls == 1..NumCalls

\* the address of the module-level dict "headers"
ModuleHeaders == 0

\* the module-level dict "headers" as the module body builds it
BrowserHeaders ==
    ( "User-Agent" :> "Mozilla/5.0 (Windows NT 10.0; Win64; x64) AppleWebKit/537.36 (KHTML, like Gecko) Chrome/120.0.0.0 Safari/537.36"
   @@ "Accept" :> "text/html,application/xhtml+xml,application/xml;q=0.9,image/webp,*/*;q=0.8"
   @@ "Accept-Language" :> "en-US,en;q=0.5"
   @@ "Accept-Encoding" :> "gzip, deflate"
   @@ "DNT" :> "1"
   @@ "Connection" :> "keep-alive"
   @@ "Upgrade-Insecure-Requests" :> "1" )

\* d[k] = v on a dict
Put(d, k, v) == [x \in DOMAIN d \cup {k} |-> IF x = k THEN v ELSE d[x]]

\* the queries the host passes
Queries == {"tax law", "  gst & vat\n", ""}

\* the entries a caller writes into the headers of its request
HeaderWrites == { <<"Accept-Language", "hi-IN">>, <<"Cookie", "sid=1">> }

\* the methods a caller overwrites params['method'] with
MethodWrites == {"POST"}

\* urllib.parse.quote_plus on one character: the unreserved characters stay,
\* the blank becomes "+", the others are percent-encoded
QuoteChar(c) ==
    CASE c = " "  -> "+"
      [] c = "&"  -> "%26"
      [] c = "="  -> "%3D"
      [] c = "/"  -> "%2F"
      [] c = "\n" -> "%0A"
      [] OTHER    -> c

RECURSIVE QuoteRange(_, _, _)
QuoteRange(s, lo, hi) ==
    IF lo > hi THEN ""
    ELSE IF lo = hi THEN QuoteChar(CharAt(s, lo))
    ELSE LET mid == (lo + hi) \div 2
         IN  QuoteRange(s, lo, mid) \o QuoteRange(s, mid + 1, hi)

QuotePlus(s) == QuoteRange(s, 1, Len(s))

\* str(n) for n >= 0
RECURSIVE IntStr(_)
IntStr(n) ==
    IF n < 10 THEN CharAt("0123456789", n + 1)
    ELSE IntStr(n \div 10) \o CharAt("0123456789", (n % 10) + 1)

\* urlencode of a sequence of <<key, value>> pairs, in order
UrlEncode(pairs) ==
    Join("&", [k \in 1..Len(pairs) |-> QuotePlus(pairs[k][1]) \o "=" \o QuotePlus(pairs[k][2])])

ResultsPerPage == 20

\* params['url'] as request builds it
RequestUrl(query, pageno) ==
    LET q    == Strip(query)
        page == IF pageno = None THEN 1 ELSE pageno[1]
    IN  search_url \o "?" \o
        UrlEncode(<< <<"q", q>>, <<"searchtext", q>>, <<"page", IntStr(page)>>,
                     <<"results", IntStr(ResultsPerPage)>> >>)

\* the dict request stores under params['headers']
RequestHeaders(c) == ModuleHeaders

\* request(query, params) on the params map of call c
Request(c, query) ==
    /\ ~params[c].called
    /\ params' = [params EXCEPT ![c] =
                    [@ EXCEPT !.called = TRUE,
                              !.url = RequestUrl(query, params[c].pageno),
                              !.method = "GET",
                              !.headers = RequestHeaders(c),
                              !.issued = headers[RequestHeaders(c)]]]
    /\ seen' = [seen EXCEPT ![c] = headers[RequestHeaders(c)]]
    /\ UNCHANGED headers
    /\ UNCHANGED respVars

\* the caller of call c writes params['headers'][k] = v into what it got back
WriteHeader(c, k, v) ==
    /\ params[c].called
    /\ headers' = [headers EXCEPT ![params[c].headers] = Put(@, k, v)]
    /\ seen' = [seen EXCEPT ![c] = headers'[params[c].headers]]
    /\ UNCHANGED params
    /\ UNCHANGED respVars

\* the caller of call c writes params['method'] = m into what it got back
WriteMethod(c, m) ==
    /\ params[c].called
    /\ params[c].method # m
    /\ params' = [params EXCEPT ![c].method = m]
    /\ UNCHANGED <<headers, seen>>
    /\ UNCHANGED respVars

(***************************************************************************)
(* Specifications                                                          *)
(***************************************************************************)

\* the params map the host hands to call c: its own empty headers dict, at
\* address c, and possibly a pageno
FreshParams(c, pageno) ==
    [called |-> FALSE, pageno |-> pageno, url |-> "", method |-> "",
     headers |-> c, issued |-> <<>>]

PageNos == {None} \cup { Some(n) : n \in 1..MaxPageNo }

InitHeaders == [a \in {ModuleHeaders} \cup Calls |->
                  IF a = ModuleHeaders THEN BrowserHeaders ELSE <<>>]

\* no call of response in progress
IdleResponse ==
    /\ text = EmptyDocument
    /\ pc = "done"
    /\ results = <<>>
    /\ idx = 1
    /\ all_links = <<>>
    /\ lidx = 1
    /\ res = <<>>
    /\ origin = <<>>
    /\ outcome = <<>>
    /\ raised = 0

\* no call of request made
IdleRequest ==
    /\ headers = InitHeaders
    /\ params = [c \in Calls |-> FreshParams(c, None)]
    /\ seen = [c \in Calls |-> <<>>]

\* response is called on one document
Init ==
    /\ text \in Documents \cup {EmptyDocument}
    /\ pc = "parse"
    /\ results = <<>>
    /\ idx = 1
    /\ all_links = <<>>
    /\ lidx = 1
    /\ res = <<>>
    /\ origin = <<>>
    /\ outcome = <<>>
    /\ raised = 0
    /\ IdleRequest

Next ==
    \/ Parse
    \/ ProcessCandidate
    \/ CandidateRaises
    \/ EndPrimary
    \/ ProcessLinkStep
    \/ LinkRaises
    \/ EndFallback

Spec == Init /\ [][Next]_vars

\* request is called once per params map, the callers write into what they
\* got back
InitRequest ==
    /\ IdleResponse
    /\ headers = InitHeaders
    /\ \E pn \in [Calls -> PageNos] : params = [c \in Calls |-> FreshParams(c, pn[c])]
    /\ seen = [c \in Calls |-> <<>>]

NextRequest ==
    \/ \E c \in Calls, q \in Queries : Request(c, q)
    \/ \E c \in Calls, w \in HeaderWrites : WriteHeader(c, w[1], w[2])
    \/ \E c \in Calls, m \in MethodWrites : WriteMethod(c, m)

SpecRequest == InitRequest /\ [][NextRequest]_vars

(***************************************************************************)
(* Properties of response                                                  *)
(***************************************************************************)

Recs == 1..Len(res)

FromPrimary(k) == origin[k].path = "primary"

FromFallback(k) == origin[k].path = "fallback"

\* the candidate or link record k of res was made from
SourceOf(k) == IF FromPrimary(k) THEN results[origin[k].at] ELSE all_links[origin[k].at]

IsAbsoluteUrl(u) == StartsWith(u, "http://") \/ StartsWith(u, "https://")

\* C1: every record response returns, from the primary path and from the
\* last-resort scan alike, has a url that begins with http:// or https://,
\* whatever href was extracted.
C1_UrlAbsolute == \A k \in Recs : IsAbsoluteUrl(res[k].url)

IsPdfUrl(u) == EndsWith(Lower(u), ".pdf")

\* the words that are classified before ".pdf" is looked for
TaggedUrl(u) ==
    \/ Contains(Lower(u), "hotline")
    \/ Contains(Lower(u), "research")
    \/ Contains(Lower(u), "article")
    \/ Contains(Lower(u), "news")

\* C2 as stated: in the primary path every accepted candidate whose
\* normalized URL ends in ".pdf" (any letter case) is emitted as a File whose
\* title is the extracted title without a "[type] " prefix, never as a Link,
\* whatever else the URL contains.
C2_PdfAlwaysFile ==
    \A k \in Recs :
        (FromPrimary(k) /\ IsPdfUrl(res[k].url))
            => /\ res[k].kind = "File"
               /\ res[k].title = ExtractTitle(SourceOf(k), 1)[1]

\* C2 as amended: in the primary path an accepted candidate whose normalized
\* URL ends in ".pdf" (any letter case) is emitted as a File with the bare
\* extracted title when the URL contains none of "hotline", "research",
\* "article", "news" (any letter case); when it contains one of them it is
\* emitted as a Link whose title carries that type's prefix.
C2_PdfFileUnlessTagged ==
    \A k \in Recs :
        (FromPrimary(k) /\ IsPdfUrl(res[k].url))
            => LET title == ExtractTitle(SourceOf(k), 1)[1]
               IN  IF TaggedUrl(res[k].url)
                   THEN /\ res[k].kind = "Link"
                        /\ res[k].title \in { "[" \o t \o "] " \o title :
                                                t \in {"Legal Hotline", "Research Article", "News"} }
                   ELSE /\ res[k].kind = "File"
                        /\ res[k].title = title

\* an untagged URL written "/files/Report.PDF" has been emitted as a File
C2_Witness ==
    \E k \in Recs :
        /\ FromPrimary(k)
        /\ IsPdfUrl(res[k].url)
        /\ ~EndsWith(res[k].url, ".pdf")
        /\ ~TaggedUrl(res[k].url)
        /\ res[k].kind = "File"

\* C3: every returned snippet has at most 300 characters; a cleaned snippet
\* text of more than 300 characters is emitted as its first 297 characters
\* followed by "...", 300 in all, any other is emitted as it is; the
\* last-resort scan emits its fixed snippet.
C3_SnippetBound ==
    \A k \in Recs :
        /\ Len(res[k].content) <= 300
        /\ FromPrimary(k) =>
              LET cleaned == CleanContent(ExtractContent(SourceOf(k), 1))
              IN  IF Len(cleaned) > 300
                  THEN /\ res[k].content = SubSeq(cleaned, 1, 297) \o "..."
                       /\ Len(res[k].content) = 300
                  ELSE res[k].content = cleaned
        /\ FromFallback(k) => res[k].content = FallbackContent

\* a snippet of more than 300 cleaned characters has been cut
C3_Witness ==
    \E k \in Recs :
        /\ FromPrimary(k)
        /\ Len(CleanContent(ExtractContent(SourceOf(k), 1))) > 300
        /\ EndsWith(res[k].content, "...")

HrefExcluded(h) ==
    StartsWith(h, "#") \/ StartsWith(h, "javascript:") \/ StartsWith(h, "mailto:")

\* C4: whenever the last-resort scan runs, the result set holds at most 10
\* records and none of them comes from a link whose href starts with "#",
\* "javascript:" or "mailto:".
C4_FallbackCapped ==
    /\ pc = "fallback" => Len(res) < 10
    /\ \A k \in Recs :
          FromFallback(k) => /\ Len(res) <= 10
                             /\ ~HrefExcluded(SourceOf(k).href)

\* the scan stopped at 10 records with links left over, after passing over an
\* excluded link
C4_Witness ==
    /\ pc = "done"
    /\ Len(res) = 10
    /\ FromFallback(1)
    /\ lidx <= Len(all_links)
    /\ \E j \in 1..(lidx - 1) : HrefExcluded(all_links[j].href)

\* the candidates the primary path accepted
Added == SelectSeq(outcome, LAMBDA o : o = "added")

\* C5: response never lets a failure out: a parse that raises gives the empty
\* result set; a candidate that raises is the only thing lost, the records
\* added before it stay and the loop goes on to every later candidate.
C5_FailuresContained ==
    /\ [](pc = "done" /\ ParseRaises(text) => res = <<>>)
    /\ [](pc \in {"fallback", "done"} /\ ~ParseRaises(text) => Len(outcome) = Len(results))
    /\ [](pc = "done" /\ ~ParseRaises(text) /\ Added = <<>> /\ Len(res) < 10
             => lidx = Len(all_links) + 1)
    /\ [][raised' > raised => res' = res]_vars
    /\ [][Len(res') >= Len(res) /\ SubSeq(res', 1, Len(res)) = res]_vars

\* a candidate raised between two candidates that were accepted
C5_Witness ==
    /\ pc = "done"
    /\ \E a, b, c \in 1..Len(outcome) :
          /\ a < b /\ b < c
          /\ outcome[a] = "added" /\ outcome[b] = "raised" /\ outcome[c] = "added"
    /\ Len(res) >= 2

\* the texts the title selectors yield, in priority order
TitleTexts(result) ==
    Flatten([k \in 1..Len(title_selectors) |-> XPathText(result, title_selectors[k])])

\* the first text, in priority order, that is not empty after trimming
FirstNonBlank(texts) ==
    LET ts == SelectSeq(texts, LAMBDA t : Strip(t) # "")
    IN  IF ts = <<>> THEN None ELSE Some(Strip(ts[1]))

\* C7: the title of a candidate is the first text, in the priority order of
\* the title selectors, that is not empty after trimming; a blank match under
\* an earlier selector does not hide a later one, and a candidate is skipped
\* for its title only if no selector yields a title of 5 characters or more.
C7_FirstNonBlankTitle ==
    \A i \in 1..Len(outcome) :
        LET texts == TitleTexts(results[i])
        IN  /\ outcome[i] = "title" =>
                  \A j \in 1..Len(texts) : Len(Strip(texts[j])) < 5
            /\ outcome[i] \in {"added", "url"} =>
                  ExtractTitle(results[i], 1) = FirstNonBlank(texts)

\* the indexes of the container selectors that match something in dom
Hits(dom) == { k \in 1..Len(result_selectors) : XPathElems(dom, result_selectors[k]) # <<>> }

Min(S) == CHOOSE m \in S : \A n \in S : m <= n

Range(f) == { f[x] : x \in DOMAIN f }

\* C8: the candidates are exactly the elements the first matching container
\* selector matches, an element that only later selectors match is never a
\* candidate, and the records of the primary path are in the order of the
\* candidates.
C8_FirstSelectorWins ==
    (pc # "parse" /\ ~ParseRaises(text)) =>
        LET hits  == Hits(text)
            first == result_selectors[Min(hits)]
            later == { n \in Range(DescOrSelf(text)) : ~StepMatches(first, n) }
        IN  hits # {} =>
              /\ results = XPathElems(text, first)
              /\ later \cap Range(results) = {}
              /\ \A k \in Recs : FromPrimary(k) => res[k] = ProcessResult(results[origin[k].at]).rec
              /\ \A k, m \in Recs :
                    (FromPrimary(k) /\ FromPrimary(m) /\ k < m) => origin[k].at < origin[m].at

\* two selectors match in the document, an element matched by the later one
\* only is there, and two candidates of the first have been accepted
C8_Witness ==
    /\ pc = "done"
    /\ ~ParseRaises(text)
    /\ Cardinality(Hits(text)) >= 2
    /\ \E n \in Range(DescOrSelf(text)) :
          /\ \E k \in Hits(text) : StepMatches(result_selectors[k], n)
          /\ ~StepMatches(result_selectors[Min(Hits(text))], n)
    /\ Len(res) >= 2
    /\ FromPrimary(1)

\* C9 as stated: the last-resort scan is entered only if the primary path
\* accepted nothing; when the primary path accepts a record, the result set
\* is exactly the primary records, none carries the fixed snippet "Content
\* from Nishith Desai Associates", and there is no cap of 10.
C9_NoFixedSnippet ==
    /\ pc = "fallback" => Added = <<>>
    /\ (pc = "done" /\ Added # <<>>) =>
          /\ Len(res) = Len(Added)
          /\ \A k \in Recs : FromPrimary(k) /\ res[k].content # FallbackContent

\* C9 as amended: the last-resort scan is entered only if the primary path
\* accepted nothing; when the primary path accepts a record, the result set
\* is exactly the primary records, none is made by the last-resort scan (a
\* record carries the fixed snippet only if that is the candidate's own
\* cleaned text), and there is no cap of 10.
C9_FallbackOnlyWhenEmpty ==
    /\ pc = "fallback" => Added = <<>>
    /\ (pc = "done" /\ Added # <<>>) =>
          /\ Len(res) = Len(Added)
          /\ \A k \in Recs :
                /\ FromPrimary(k)
                /\ res[k] = ProcessResult(SourceOf(k)).rec
                /\ res[k].content = FallbackContent =>
                      CleanContent(ExtractContent(SourceOf(k), 1)) = FallbackContent

\* the primary path has returned more than 10 records
C9_Witness ==
    /\ pc = "done"
    /\ Len(Added) > 10
    /\ Len(res) = Len(Added)

\* C10: when no container selector matches, every hyperlink of the document
\* is a candidate, whatever the form of its href.
C10_EveryLinkCandidate ==
    (pc # "parse" /\ ~ParseRaises(text) /\ Hits(text) = {}) => results = AllLinks(text)

(***************************************************************************)
(* Properties of request                                                   *)
(***************************************************************************)

\* C6: calls of request share no mutable state: what one caller writes into
\* the headers of the descriptor it got back shows neither in the descriptor
\* of another call nor in the headers a later call hands out.
C6_NoSharedHeaders ==
    \A c \in Calls :
        params[c].called =>
            /\ headers[params[c].headers] = seen[c]
            /\ params[c].issued = BrowserHeaders

====
